---- MODULE Spec2Model ----
(***************************************************************************)
(* GridWrinkl grid layout engine (src/gridwrinkl_cli.py): project          *)
(* initialisation with its file scan, and grid_reorganize with its         *)
(* placement pass, backup copy and overwrite of the current layout.        *)
(*                                                                         *)
(* A layout file holds a JSON document.  Every value the engine writes is  *)
(* built from strings, integers, booleans, lists and string-keyed dicts,   *)
(* on which json.dump followed by json.load returns an equal value, so a   *)
(* file is modelled by the document it holds; an absent file and a file    *)
(* opened for writing but not yet written are separate values.             *)
(***************************************************************************)
EXTENDS Integers, Sequences, FiniteSets, TLC

(* ------------------------------ bounds -------------------------------- *)
\* longest block list of a layout document found on disk at start
MaxBlocks == 2
\* longest list of project files found by the scan
MaxFiles == 2
\* last second of the wall clock
MaxTime == 1
\* most commands run on one project
MaxRuns == 3
\* most users in the store
MaxUsers == 2

(* ------------------------- program constants -------------------------- *)
ActiveDays == 7
PendingDays == 30

\* self.category_to_zone
category_to_zone ==
  [c \in {"active", "pending", "archive", "completed", "resources", "reference"} |->
     CASE c = "active" -> "active"
       [] c = "pending" -> "active"
       [] c = "archive" -> "archive"
       [] c = "completed" -> "archive"
       [] c = "resources" -> "resources"
       [] c = "reference" -> "resources"]

Rect(x, y, w, h) == [x |-> x, y |-> y, width |-> w, height |-> h]

\* the configuration _create_config writes
DefaultConfig ==
  [grid_size |-> [width |-> 12, height |-> 8],
   zones |-> [z \in {"active", "resources", "archive"} |->
                CASE z = "active" -> Rect(0, 0, 6, 4)
                  [] z = "resources" -> Rect(6, 0, 6, 4)
                  [] z = "archive" -> Rect(0, 4, 12, 4)]]

(* ----------------------- files and documents -------------------------- *)
NoFile == [kind |-> "absent"]
\* a file opened with mode "w" whose content has not been written
Truncated == [kind |-> "truncated"]

NoPosition == <<>>

(* -------------------------- the classifier ---------------------------- *)
\* a file name is its sequence of parts: prefix, stem, suffix
Suffix(name) == name[Len(name)]

FileType(name) ==
  LET ext == Suffix(name) IN
  IF ext \in {".py", ".js", ".ts", ".java", ".c", ".cpp", ".go", ".rs"} THEN "code"
  ELSE IF ext \in {".md", ".txt", ".doc", ".docx", ".pdf"} THEN "document"
  ELSE IF ext \in {".json", ".yaml", ".yml", ".toml", ".ini", ".config"} THEN "config"
  ELSE IF ext \in {".jpg", ".png", ".gif", ".svg", ".webp"} THEN "image"
  ELSE IF ext \in {".html", ".css", ".scss", ".sass"} THEN "web"
  ELSE IF ext \in {".sql", ".db"} THEN "database"
  ELSE IF ext \in {".zip", ".tar", ".gz", ".rar"} THEN "archive"
  ELSE "unknown"

\* lines 556-561 with the bounds included
AgeCategory_Inclusive(days) ==
  IF days <= ActiveDays THEN "active"
  ELSE IF days <= PendingDays THEN "pending"
  ELSE "archive"

AgeCategory(days) ==
  IF days < ActiveDays THEN "active"
  ELSE IF days < PendingDays THEN "pending"
  ELSE "archive"

IsSpecialName(name) ==
  \/ name[1] = "README"
  \/ name \in {<<"requirements", ".txt">>, <<"package", ".json">>, <<"setup", ".py">>}
  \/ name[1] = "test_"
  \/ (Len(name) >= 2 /\ name[Len(name) - 1] = "_test" /\ name[Len(name)] = ".py")

FileCategory(file) ==
  IF IsSpecialName(file.name) THEN "resources" ELSE AgeCategory(file.days)

_analyze_file(file) ==
  [type |-> FileType(file.name), category |-> FileCategory(file)]

ignore_patterns ==
  {".git", "__pycache__", ".venv", "node_modules", ".ai", ".gridfile", ".tmp", "dist", "build"}

\* a pattern that occurs anywhere in the path string
_should_ignore_file(file) ==
  \/ file.dir \in ignore_patterns
  \/ \E i \in 1..Len(file.name) : file.name[i] \in ignore_patterns

(* ----------------------------- statistics ----------------------------- *)
RECURSIVE CountPlaced(_)
CountPlaced(blocks) ==
  IF blocks = <<>> THEN 0
  ELSE (IF Head(blocks).placed THEN 1 ELSE 0) + CountPlaced(Tail(blocks))

Indices(blocks) == 1..Len(blocks)

category_counts(blocks) ==
  [c \in {blocks[i].category : i \in Indices(blocks)} |->
     Cardinality({i \in Indices(blocks) : blocks[i].category = c})]

type_counts(blocks) ==
  [t \in {blocks[i].type : i \in Indices(blocks)} |->
     Cardinality({i \in Indices(blocks) : blocks[i].type = t})]

(* --------------------------- fresh build ------------------------------ *)
\* lines 481-489 with every block written as placed at the first cell
FileBlock_Placed(file) ==
  [path |-> file.path, name |-> file.name,
   type |-> _analyze_file(file).type, category |-> _analyze_file(file).category,
   size |-> file.size, modified |-> file.days,
   placed |-> TRUE, position |-> <<0, 0>>]

\* the clock of a session moves by seconds, so a file's modification time is
\* given by its age in whole days
FileBlock(file) ==
  [path |-> file.path, name |-> file.name,
   type |-> _analyze_file(file).type, category |-> _analyze_file(file).category,
   size |-> file.size, modified |-> file.days,
   placed |-> FALSE, position |-> NoPosition]

ScannedFiles(fs) == SelectSeq(fs, LAMBDA f : ~_should_ignore_file(f))

\* lines 475-527 with the blocks in an order that depends on the second of the build
_create_initial_grid_layout_Unstable(fs, cfg, t) ==
  LET file_blocks == [i \in 1..Len(fs) |-> FileBlock(fs[i])] IN
  [kind |-> "layout", version |-> "1.0.0", timestamp |-> t,
   grid_size |-> cfg.grid_size, zones |-> cfg.zones,
   blocks |-> IF t % 2 = 0 THEN file_blocks
              ELSE [i \in 1..Len(fs) |-> file_blocks[Len(fs) + 1 - i]],
   stats |-> [total_files |-> Len(file_blocks), placed_files |-> 0,
              by_category |-> category_counts(file_blocks),
              by_type |-> type_counts(file_blocks)]]

_create_initial_grid_layout(fs, cfg, t) ==
  LET file_blocks == [i \in 1..Len(fs) |-> FileBlock(fs[i])] IN
  [kind |-> "layout", version |-> "1.0.0", timestamp |-> t,
   grid_size |-> cfg.grid_size, zones |-> cfg.zones, blocks |-> file_blocks,
   stats |-> [total_files |-> Len(file_blocks), placed_files |-> 0,
              by_category |-> category_counts(file_blocks),
              by_type |-> type_counts(file_blocks)]]

(* --------------------------- placement -------------------------------- *)
\* grid = [[False] * width] * height, with the cells set to True in occ
NewGrid(grid_size) ==
  [width |-> IF grid_size.width < 0 THEN 0 ELSE grid_size.width,
   height |-> IF grid_size.height < 0 THEN 0 ELSE grid_size.height,
   occ |-> {}]

\* Python list indexing: a negative index counts from the end
ListIndex(i, n) == IF i < 0 THEN i + n ELSE i
IndexInRange(i, n) == -n <= i /\ i < n

\* the cells of range(zone_y, zone_y + zone_h) x range(zone_x, zone_x + zone_w),
\* y outer, x inner
ZoneCells(zone) ==
  IF zone.width <= 0 \/ zone.height <= 0 THEN <<>>
  ELSE [i \in 1..(zone.width * zone.height) |->
          <<zone.x + ((i - 1) % zone.width), zone.y + ((i - 1) \div zone.width)>>]

\* line 1114: the cell is skipped without reading the grid
BeyondGrid(grid, x, y) == y >= grid.height \/ x >= grid.width

\* line 1118: grid[y][x]
CellOccupied_Never(grid, x, y) == FALSE
CellOccupied(grid, x, y) ==
  <<ListIndex(x, grid.width), ListIndex(y, grid.height)>> \in grid.occ

\* grid[0] or grid[y][x] raises IndexError
CellRaises(grid, x, y) ==
  /\ y < grid.height
  /\ \/ grid.height = 0
     \/ (x < grid.width /\ ~(IndexInRange(y, grid.height) /\ IndexInRange(x, grid.width)))

\* st = [blocks: the list still to place, grid, assigned: the blocks popped and
\* given a position, in order, error: an exception was raised]
RECURSIVE PlaceFrom(_, _, _)
PlaceFrom(cells, i, st) ==
  IF i > Len(cells) THEN st
  ELSE LET x == cells[i][1]
           y == cells[i][2]
       IN IF CellRaises(st.grid, x, y) THEN [st EXCEPT !.error = TRUE]
          ELSE IF BeyondGrid(st.grid, x, y) THEN PlaceFrom(cells, i + 1, st)
          ELSE IF CellOccupied(st.grid, x, y) THEN PlaceFrom(cells, i + 1, st)
          ELSE IF st.blocks = <<>> THEN st
          ELSE LET block == [Head(st.blocks) EXCEPT !.placed = TRUE,
                                                    !.position = <<x, y>>]
               IN PlaceFrom(cells, i + 1,
                    [blocks |-> Tail(st.blocks),
                     grid |-> [st.grid EXCEPT !.occ = @ \cup
                                 {<<ListIndex(x, st.grid.width),
                                    ListIndex(y, st.grid.height)>>}],
                     assigned |-> Append(st.assigned, block),
                     error |-> FALSE])

_place_blocks_in_zone(blocks, zone, grid, assigned) ==
  PlaceFrom(ZoneCells(zone), 1,
            [blocks |-> blocks, grid |-> grid, assigned |-> assigned, error |-> FALSE])

\* line 1094 with every category sent to the active zone
ZoneOf_Active(category) == "active"
\* line 1094 with no zone for a category that is not in the table
ZoneOf_NoDefault(category) ==
  IF category \in DOMAIN category_to_zone THEN category_to_zone[category] ELSE "none"
\* self.category_to_zone.get(category, "archive")
ZoneOf(category) ==
  IF category \in DOMAIN category_to_zone THEN category_to_zone[category] ELSE "archive"

\* the keys of categorized_blocks, in insertion order
RECURSIVE CategoryOrder(_, _)
CategoryOrder(blocks, seen) ==
  IF blocks = <<>> THEN <<>>
  ELSE IF Head(blocks).category \in seen THEN CategoryOrder(Tail(blocks), seen)
  ELSE <<Head(blocks).category>> \o
       CategoryOrder(Tail(blocks), seen \cup {Head(blocks).category})

\* lines 1083-1090 without the reset
Unplaced_Keep(block) == block
\* lines 1083-1090: a copy of the block, unplaced and without position
Unplaced(block) == [block EXCEPT !.placed = FALSE, !.position = NoPosition]

Group(blocks, category) ==
  LET g == SelectSeq(blocks, LAMBDA b : b.category = category)
  IN [i \in 1..Len(g) |-> Unplaced(g[i])]

\* lines 1093-1097: ps = [lists: category -> blocks_list, grid, assigned, error]
RECURSIVE PlaceGroups(_, _, _, _)
PlaceGroups(order, i, zones, ps) ==
  IF i > Len(order) \/ ps.error THEN ps
  ELSE LET category == order[i]
           zone_name == ZoneOf(category)
       IN IF zone_name \notin DOMAIN zones THEN PlaceGroups(order, i + 1, zones, ps)
          ELSE LET st == _place_blocks_in_zone(ps.lists[category], zones[zone_name],
                                               ps.grid, ps.assigned)
               IN PlaceGroups(order, i + 1, zones,
                    [lists |-> [ps.lists EXCEPT ![category] = st.blocks],
                     grid |-> st.grid, assigned |-> st.assigned, error |-> st.error])

RECURSIVE Concat(_, _, _)
Concat(order, i, lists) ==
  IF i > Len(order) THEN <<>> ELSE lists[order[i]] \o Concat(order, i + 1, lists)

\* the pass: [result_blocks, assigned, error]
_reorganize_blocks(blocks, zones, grid_size) ==
  LET order == CategoryOrder(blocks, {})
      start == [lists |-> [c \in {order[i] : i \in 1..Len(order)} |-> Group(blocks, c)],
                grid |-> NewGrid(grid_size), assigned |-> <<>>, error |-> FALSE]
      done == PlaceGroups(order, 1, zones, start)
  IN [result_blocks |-> Concat(order, 1, done.lists),
      assigned |-> done.assigned, error |-> done.error]

(* ------------------------- grid_reorganize ---------------------------- *)
\* line 991 with initial.json chosen whatever exists
LayoutPath_Initial(cur) == "initial"
\* line 991: current.json when it exists, else initial.json
LayoutPath(cur) == IF cur # NoFile THEN "current" ELSE "initial"

\* line 993: not layout_path.exists()
MissingLayout_Never(file) == FALSE
MissingLayout(file) == file = NoFile

\* layout.get(key, default)
Get(doc, key, default) == IF key \in DOMAIN doc THEN doc[key] ELSE default

\* lines 1001-1009
LoadedGridSize(doc) == Get(doc, "grid_size", DefaultConfig.grid_size)
LoadedZones(doc) == Get(doc, "zones", DefaultConfig.zones)
LoadedBlocks(doc) == Get(doc, "blocks", <<>>)

\* lines 1017-1050, with the old count of blocks in place of the new one
BuildNewLayout_OldCount(doc, new_blocks, t) ==
  [kind |-> "layout", version |-> "1.0.0", timestamp |-> t,
   grid_size |-> LoadedGridSize(doc), zones |-> LoadedZones(doc), blocks |-> new_blocks,
   stats |-> [total_files |-> Len(LoadedBlocks(doc)),
              placed_files |-> CountPlaced(new_blocks),
              by_category |-> category_counts(new_blocks),
              by_type |-> type_counts(new_blocks)]]

\* lines 1017-1050
BuildNewLayout(doc, new_blocks, t) ==
  [kind |-> "layout", version |-> "1.0.0", timestamp |-> t,
   grid_size |-> LoadedGridSize(doc), zones |-> LoadedZones(doc), blocks |-> new_blocks,
   stats |-> [total_files |-> Len(new_blocks),
              placed_files |-> CountPlaced(new_blocks),
              by_category |-> category_counts(new_blocks),
              by_type |-> type_counts(new_blocks)]]

(* ------------------------------ inputs -------------------------------- *)
\* project files: path, directory, name parts, size in bytes, whole days since
\* modification
FileKinds ==
  { [path |-> 1, dir |-> "src", name |-> <<"main", ".py">>, size |-> 10, days |-> 0],
    [path |-> 2, dir |-> "docs", name |-> <<"notes", ".md">>, size |-> 20, days |-> 10],
    [path |-> 3, dir |-> "top", name |-> <<"README", ".md">>, size |-> 30, days |-> 200],
    [path |-> 4, dir |-> "build", name |-> <<"out", ".js">>, size |-> 40, days |-> 0],
    [path |-> 5, dir |-> "old", name |-> <<"data", ".zip">>, size |-> 50, days |-> 45] }

Distinct(seq) == \A i, j \in 1..Len(seq) : i # j => seq[i] # seq[j]

SeqsUpTo(S, n) == UNION {[1..k -> S] : k \in 0..n}

FileLists == {fs \in SeqsUpTo(FileKinds, MaxFiles) : Distinct(fs)}

\* the files of a project that is found initialised
ExistingFiles ==
  << [path |-> 1, dir |-> "src", name |-> <<"main", ".py">>, size |-> 10, days |-> 0],
     [path |-> 3, dir |-> "top", name |-> <<"README", ".md">>, size |-> 30, days |-> 200] >>

\* the files of the one-file projects the classifier is run on
ClassifierNames ==
  { <<"main", ".py">>, <<"notes", ".md">>, <<"README", ".md">>, <<"README">>,
    <<"my", "README", ".md">>, <<"requirements", ".txt">>, <<"requirements", ".md">>,
    <<"package", ".json">>, <<"setup", ".py">>, <<"test_", "a", ".py">>,
    <<"a", "_test", ".py">>, <<"a", "_test", ".js">> }

ClassifierDays == {-1, 0, 6, 7, 8, 29, 30, 31, 200}

ClassifierFiles ==
  { [path |-> 1, dir |-> "src", name |-> n, size |-> 10, days |-> d] :
      n \in ClassifierNames, d \in ClassifierDays }

\* category and type of the blocks of a layout document found on disk
BlockKinds ==
  { [category |-> "active", type |-> "code"],
    [category |-> "pending", type |-> "document"],
    [category |-> "archive", type |-> "code"],
    [category |-> "resources", type |-> "document"],
    [category |-> "misc", type |-> "unknown"] }

SmallConfig ==
  [grid_size |-> [width |-> 2, height |-> 2],
   zones |-> [z \in {"active", "resources", "archive"} |->
                CASE z = "active" -> Rect(0, 0, 1, 1)
                  [] z = "resources" -> Rect(1, 0, 1, 1)
                  [] z = "archive" -> Rect(0, 1, 1, 1)]]

\* zones that share cells
OverlapConfig ==
  [grid_size |-> [width |-> 2, height |-> 2],
   zones |-> [z \in {"active", "resources", "archive"} |->
                CASE z = "active" -> Rect(0, 0, 2, 1)
                  [] z = "resources" -> Rect(0, 0, 1, 2)
                  [] z = "archive" -> Rect(1, 0, 1, 2)]]

\* zones that reach beyond the right and bottom edges of the grid
SpillConfig ==
  [grid_size |-> [width |-> 2, height |-> 2],
   zones |-> [z \in {"active", "resources", "archive"} |->
                CASE z = "active" -> Rect(1, 1, 2, 2)
                  [] z = "resources" -> Rect(2, 0, 1, 1)
                  [] z = "archive" -> Rect(0, 0, 3, 1)]]

\* zones that start left of or above the grid
NegativeConfig ==
  [grid_size |-> [width |-> 2, height |-> 2],
   zones |-> [z \in {"active", "resources", "archive"} |->
                CASE z = "active" -> Rect(-1, 0, 2, 1)
                  [] z = "resources" -> Rect(-3, 1, 1, 1)
                  [] z = "archive" -> Rect(0, -1, 1, 2)]]

\* no archive zone and no resources zone
ActiveOnlyConfig ==
  [grid_size |-> [width |-> 2, height |-> 2],
   zones |-> [z \in {"active"} |-> Rect(0, 0, 2, 2)]]

Configs ==
  {DefaultConfig, SmallConfig, OverlapConfig, SpillConfig, NegativeConfig, ActiveOnlyConfig}

ExistingBlock(i, k) ==
  [path |-> i, name |-> <<"file">>, type |-> k.type, category |-> k.category,
   size |-> i, modified |-> 0,
   placed |-> FALSE, position |-> NoPosition]

ExistingLayout(cfg, kinds) ==
  LET blocks == [i \in 1..Len(kinds) |-> ExistingBlock(i, kinds[i])] IN
  [kind |-> "layout", version |-> "1.0.0", timestamp |-> 0,
   grid_size |-> cfg.grid_size, zones |-> cfg.zones, blocks |-> blocks,
   stats |-> [total_files |-> Len(blocks), placed_files |-> 0,
              by_category |-> category_counts(blocks),
              by_type |-> type_counts(blocks)]]

\* a layout whose blocks an earlier arrangement left placed, with positions
PlacedLayout(cfg, kinds) ==
  LET doc == ExistingLayout(cfg, kinds) IN
  [doc EXCEPT !.blocks = [i \in 1..Len(kinds) |->
                            [doc.blocks[i] EXCEPT !.placed = TRUE,
                                                  !.position = <<i - 1, 0>>]],
              !.stats.placed_files = Len(kinds)]

PlacedLayouts ==
  {PlacedLayout(SmallConfig, kinds) : kinds \in SeqsUpTo(BlockKinds, MaxBlocks) \ {<<>>}}

\* the default grid with one active block for every cell of the active zone,
\* followed by a pending block and a resources block
ActiveCells == DefaultConfig.zones["active"].width * DefaultConfig.zones["active"].height

CrowdedLayout ==
  ExistingLayout(DefaultConfig,
    [i \in 1..(ActiveCells + 2) |->
       IF i <= ActiveCells THEN [category |-> "active", type |-> "code"]
       ELSE IF i = ActiveCells + 1 THEN [category |-> "pending", type |-> "document"]
       ELSE [category |-> "resources", type |-> "document"]])

\* a document from which keys are missing
Without(doc, keys) == [k \in DOMAIN doc \ keys |-> doc[k]]

MalformedLayouts ==
  LET doc == ExistingLayout(SmallConfig, <<[category |-> "active", type |-> "code"],
                                           [category |-> "active", type |-> "code"]>>)
  IN {Without(doc, {"grid_size", "zones"}), Without(doc, {"blocks"})}

ExistingLayouts ==
  {ExistingLayout(cfg, kinds) : cfg \in Configs, kinds \in SeqsUpTo(BlockKinds, MaxBlocks)}
    \cup PlacedLayouts \cup {CrowdedLayout} \cup MalformedLayouts

ConfigFile(cfg) == [kind |-> "config", grid_size |-> cfg.grid_size, zones |-> cfg.zones]

(* ----------------------------- user store ----------------------------- *)
\* a string is the sequence of its parts
_hash_password_Constant(password) == <<"hashed_">>
\* f"hashed_{password}"
_hash_password(password) == <<"hashed_">> \o password

verify_password(password, hashed_password) == _hash_password(password) = hashed_password

\* User(username=..., email=..., hashed_password=...) with the id the default
\* factory drew
User(username, email, hashed_password, id) ==
  [username |-> username, email |-> email, hashed_password |-> hashed_password,
   is_active |-> TRUE, id |-> id]

\* a dict is the sequence of its items, in insertion order
Keys(db) == {db[i].key : i \in 1..Len(db)}
Values(db) == [i \in 1..Len(db) |-> db[i].value]

\* db[key] = value
DictSet(db, key, value) ==
  IF key \in Keys(db)
  THEN [i \in 1..Len(db) |-> IF db[i].key = key THEN [key |-> key, value |-> value]
                             ELSE db[i]]
  ELSE Append(db, [key |-> key, value |-> value])

\* line 27 without the check
EmailTaken_Never(db, email) == FALSE
\* line 27: email in [user.email for user in _users_db.values()]
EmailTaken(db, email) == \E i \in 1..Len(db) : db[i].value.email = email

None == [kind |-> "none"]
Raised(exception) == [kind |-> "raise", value |-> exception]
Returned(value) == [kind |-> "return", value |-> value]

\* the first user of _users_db.values() with the email, or None
get_user_by_email(db, email) ==
  LET found == SelectSeq(Values(db), LAMBDA user : user.email = email)
  IN IF found = <<>> THEN None ELSE Returned(Head(found))

\* the arguments of the calls
Usernames == {<<"user1">>}
Emails == {<<"a", "@example.com">>, <<"b", "@example.com">>, <<"A", "@example.com">>}
Passwords == {<<"pass1">>, <<"pass2">>, <<"hashed_", "pass1">>}
\* the values uuid.uuid4() may give
Ids == 1..MaxUsers

(* ------------------------------- state -------------------------------- *)
VARIABLES
  files,        \* the project's files, in the order the scan yields them
  initialized,  \* is_initialized(): .gridfile, .ai and config.json exist
  config,       \* .gridfile/config.json
  initial,      \* .gridfile/layouts/initial.json
  current,      \* .gridfile/layouts/current.json
  backups,      \* .gridfile/backups/layout-<second>.json, by second
  now,          \* the wall clock, in seconds
  pc,           \* position of the running grid_reorganize, or "idle"
  op,           \* the command run last
  result,       \* how it ended
  runs,         \* the number of commands run so far
  layout_path,  \* grid_reorganize: which file was loaded
  layout,       \* grid_reorganize: the document loaded
  new_layout,   \* grid_reorganize: the document built
  assigned,     \* the blocks the placement pass popped and gave a position
  _users_db,    \* services._users_db
  created,      \* the create_user calls that returned, with the id of the user
  call,         \* the call of the user service made last
  ret           \* what it returned or raised

vars == <<files, initialized, config, initial, current, backups, now, pc, op, result, runs,
          layout_path, layout, new_layout, assigned, _users_db, created, call, ret>>

grid_vars == <<files, initialized, config, initial, current, backups, now, pc, op, result, runs,
               layout_path, layout, new_layout, assigned>>
user_vars == <<_users_db, created, call, ret>>

disk == <<initialized, config, initial, current, backups>>
locals == <<layout_path, layout, new_layout, assigned>>

NoBackups == [t \in {} |-> NoFile]

InitFresh ==
  /\ files \in FileLists
  /\ initialized = FALSE
  /\ config = NoFile
  /\ initial = NoFile

InitExisting ==
  /\ files = ExistingFiles
  /\ initialized = TRUE
  /\ \/ /\ initial \in ExistingLayouts
        /\ config = ConfigFile([grid_size |-> LoadedGridSize(initial),
                                zones |-> LoadedZones(initial)])
     \/ /\ initial = NoFile
        /\ config = ConfigFile(DefaultConfig)

InitCommon ==
  /\ current = NoFile
  /\ backups = NoBackups
  /\ now = 0
  /\ pc = "idle"
  /\ op = "none"
  /\ result = "none"
  /\ runs = 0
  /\ layout_path = "none"
  /\ layout = NoFile
  /\ new_layout = NoFile
  /\ assigned = <<>>
  /\ _users_db = <<>>
  /\ created = <<>>
  /\ call = [fn |-> "none"]
  /\ ret = None

Init == (InitFresh \/ InitExisting) /\ InitCommon

\* a project that is not initialised, of one file or of a list of files
InitClassify ==
  /\ files \in {<<f>> : f \in ClassifierFiles} \cup FileLists
  /\ initialized = FALSE
  /\ config = NoFile
  /\ initial = NoFile
  /\ InitCommon

(* ------------------------------ actions ------------------------------- *)
\* init(project_name, force)
InitProject ==
  /\ pc = "idle"
  /\ runs < MaxRuns
  /\ runs' = runs + 1
  /\ op' = "init"
  /\ \E force \in BOOLEAN :
       IF initialized /\ ~force
       THEN /\ result' = "fail"
            /\ UNCHANGED disk
       ELSE /\ result' = "ok"
            /\ initialized' = TRUE
            /\ config' = ConfigFile(DefaultConfig)
            /\ initial' = _create_initial_grid_layout(ScannedFiles(files), DefaultConfig, now)
            /\ UNCHANGED <<current, backups>>
  /\ UNCHANGED <<files, now, pc, locals>>
  /\ UNCHANGED user_vars

\* grid_reorganize, lines 981-1050: the checks, the load and the new layout
ReorgStart ==
  /\ pc = "idle"
  /\ runs < MaxRuns
  /\ runs' = runs + 1
  /\ op' = "reorganize"
  /\ UNCHANGED <<files, now, disk>>
  /\ LET path == LayoutPath(current)
         file == IF path = "current" THEN current ELSE initial
         pass == _reorganize_blocks(LoadedBlocks(file), LoadedZones(file),
                                    LoadedGridSize(file))
     IN IF ~initialized
        THEN /\ result' = "NotInitialized"
             /\ UNCHANGED <<pc, locals>>
        ELSE IF MissingLayout(file)
        THEN /\ result' = "LayoutNotFound"
             /\ UNCHANGED <<pc, locals>>
        ELSE IF file = Truncated \/ pass.error
        THEN /\ result' = "exception"
             /\ UNCHANGED <<pc, locals>>
        ELSE /\ result' = "running"
             /\ pc' = "backup"
             /\ layout_path' = path
             /\ layout' = file
             /\ new_layout' = BuildNewLayout(file, pass.result_blocks, now)
             /\ assigned' = pass.assigned
  /\ UNCHANGED user_vars

LoadedFile == IF layout_path = "current" THEN current ELSE initial

\* the failed copy is recorded and the run goes on to the overwrite
ReorgBackupFails_Swallowed ==
  /\ pc = "backup"
  /\ LoadedFile # NoFile
  /\ result' = "backup_failed"
  /\ pc' = "open"
  /\ UNCHANGED <<backups, files, now, op, runs, initialized, config, initial, current, locals>>
  /\ UNCHANGED user_vars

\* lines 1053-1055 with the copy failing: shutil.copy2 raises before it has
\* created the backup file, nothing catches the exception and the run ends
ReorgBackupFails ==
  /\ pc = "backup"
  /\ LoadedFile # NoFile
  /\ result' = "backup_failed"
  /\ pc' = "idle"
  /\ backups' = backups
  /\ UNCHANGED <<files, now, op, runs, initialized, config, initial, current, locals>>
  /\ UNCHANGED user_vars

\* lines 1053-1055 without the copy
ReorgBackup_NoCopy ==
  /\ pc = "backup"
  /\ pc' = "open"
  /\ UNCHANGED <<backups, files, now, op, runs, result, initialized, config, initial, current,
                 locals>>
  /\ UNCHANGED user_vars

\* lines 1053-1055 with the backup directory holding the newest copy only
ReorgBackup_LatestOnly ==
  /\ pc = "backup"
  /\ pc' = "open"
  /\ backups' = [t \in {now} |-> LoadedFile]
  /\ UNCHANGED <<files, now, op, runs, result, initialized, config, initial, current, locals>>
  /\ UNCHANGED user_vars

\* lines 1053-1055: the loaded file is copied to layout-<now>.json
ReorgBackup ==
  /\ pc = "backup"
  /\ pc' = "open"
  /\ IF LoadedFile # NoFile
     THEN backups' = [t \in DOMAIN backups \cup {now} |->
                        IF t = now THEN LoadedFile ELSE backups[t]]
     ELSE backups' = backups
  /\ UNCHANGED <<files, now, op, runs, result, initialized, config, initial, current, locals>>
  /\ UNCHANGED user_vars

\* line 1058: open(current.json, "w") empties the file
ReorgOpen ==
  /\ pc = "open"
  /\ pc' = "dump"
  /\ current' = Truncated
  /\ UNCHANGED <<files, now, op, runs, result, initialized, config, initial, backups, locals>>
  /\ UNCHANGED user_vars

\* line 1063, always true
ComputesEfficiency_Always(blocks) == TRUE
\* line 1063: the efficiencies are computed for a loaded list that has blocks
ComputesEfficiency(blocks) == Len(blocks) > 0

\* lines 1064-1065: the division by len(blocks) raises ZeroDivisionError
EfficiencyRaises(blocks) == ComputesEfficiency(blocks) /\ Len(blocks) = 0

\* lines 1059-1070 with the new layout written to initial.json as well
ReorgDump_BothFiles ==
  /\ pc = "dump"
  /\ pc' = "idle"
  /\ current' = new_layout
  /\ initial' = new_layout
  /\ result' = IF EfficiencyRaises(LoadedBlocks(layout)) THEN "exception" ELSE "ok"
  /\ UNCHANGED <<files, now, op, runs, initialized, config, backups, locals>>
  /\ UNCHANGED user_vars

\* lines 1059-1070: json.dump writes the new layout, the efficiencies are
\* logged and the run returns True
ReorgDump ==
  /\ pc = "dump"
  /\ pc' = "idle"
  /\ current' = new_layout
  /\ result' = IF EfficiencyRaises(LoadedBlocks(layout)) THEN "exception" ELSE "ok"
  /\ UNCHANGED <<files, now, op, runs, initialized, config, initial, backups, locals>>
  /\ UNCHANGED user_vars

\* a second passes
Tick ==
  /\ pc = "idle"
  /\ now < MaxTime
  /\ now' = now + 1
  /\ UNCHANGED <<files, pc, op, runs, result, disk, locals>>
  /\ UNCHANGED user_vars

Next ==
  \/ InitProject
  \/ ReorgStart
  \/ ReorgBackup
  \/ ReorgBackupFails
  \/ ReorgOpen
  \/ ReorgDump
  \/ Tick

Spec == Init /\ [][Next]_vars

\* sessions of init commands only
NextClassify ==
  \/ InitProject
  \/ Tick

SpecClassify == InitClassify /\ [][NextClassify]_vars

(* ------------------------- user store actions ------------------------- *)
\* create_user(username, email, password)
CreateUser ==
  \E username \in Usernames, email \in Emails, password \in Passwords :
    /\ call' = [fn |-> "create_user", username |-> username, email |-> email,
                password |-> password]
    /\ IF EmailTaken(_users_db, email)
       THEN /\ ret' = Raised("ValueError")
            /\ UNCHANGED <<_users_db, created>>
       ELSE /\ Len(_users_db) < MaxUsers
            \* uuid4 gives an id that no stored user has
            /\ \E id \in Ids \ Keys(_users_db) :
                 LET new_user == User(username, email, _hash_password(password), id)
                 IN /\ _users_db' = DictSet(_users_db, new_user.id, new_user)
                    /\ ret' = Returned(new_user)
                    /\ created' = Append(created, [id |-> id, email |-> email,
                                                   password |-> password])
    /\ UNCHANGED grid_vars

\* get_user_by_email(email)
GetUserByEmail ==
  \E email \in Emails :
    /\ call' = [fn |-> "get_user_by_email", email |-> email]
    /\ ret' = get_user_by_email(_users_db, email)
    /\ UNCHANGED <<_users_db, created, grid_vars>>

\* verify_password(password, user.hashed_password) for a stored user
VerifyPassword ==
  \E password \in Passwords, i \in 1..Len(_users_db) :
    /\ call' = [fn |-> "verify_password", password |-> password,
                id |-> _users_db[i].value.id]
    /\ ret' = Returned(verify_password(password, _users_db[i].value.hashed_password))
    /\ UNCHANGED <<_users_db, created, grid_vars>>

\* the user service on its own, the grid engine not in use
InitUsers ==
  /\ files = <<>>
  /\ initialized = FALSE
  /\ config = NoFile
  /\ initial = NoFile
  /\ InitCommon

NextUsers ==
  \/ CreateUser
  \/ GetUserByEmail
  \/ VerifyPassword

SpecUsers == InitUsers /\ [][NextUsers]_vars

(* ------------------------------ claims -------------------------------- *)
\* a grid_reorganize has returned True: current.json holds new_layout, and
\* layout is the document the run loaded
ReorgDone == op = "reorganize" /\ result = "ok" /\ pc = "idle"

PathCount(blocks, path) == Cardinality({j \in Indices(blocks) : blocks[j].path = path})

\* C1: after a successful reorganization of a layout with block list B, the
\* blocks of the new current layout have the length of B and hold every path
\* of B exactly once.
C1_NoBlockLost ==
  ReorgDone =>
    /\ Len(current.blocks) = Len(LoadedBlocks(layout))
    /\ \A i \in Indices(LoadedBlocks(layout)) :
         PathCount(current.blocks, LoadedBlocks(layout)[i].path) = 1

Min(a, b) == IF a < b THEN a ELSE b

InsideGrid(grid_size, x, y) ==
  0 <= x /\ x < grid_size.width /\ 0 <= y /\ y < grid_size.height

InsideRect(zone, x, y) ==
  zone.x <= x /\ x < zone.x + zone.width /\ zone.y <= y /\ y < zone.y + zone.height

\* the group processed first, whose zone lies inside the grid, meets free cells only
FirstGroupAllFree(doc) ==
  /\ LoadedBlocks(doc) # <<>>
  /\ ZoneOf(LoadedBlocks(doc)[1].category) \in DOMAIN LoadedZones(doc)
  /\ LET cells == ZoneCells(LoadedZones(doc)[ZoneOf(LoadedBlocks(doc)[1].category)])
     IN \A k \in 1..Len(cells) :
          InsideGrid(LoadedGridSize(doc), cells[k][1], cells[k][2])

\* C2: the i-th block of a group placed into a zone of c free cells is in the
\* resulting layout with placed = true at the i-th cell of the zone in
\* row-major order, for i up to min(n, c); the other n - c blocks of the group
\* are in the resulting layout with placed = false.
C2_FirstFitRowMajor ==
  (ReorgDone /\ FirstGroupAllFree(layout)) =>
    LET group == Group(LoadedBlocks(layout), LoadedBlocks(layout)[1].category)
        cells == ZoneCells(LoadedZones(layout)[ZoneOf(LoadedBlocks(layout)[1].category)])
    IN \A i \in 1..Len(group) :
         \E j \in Indices(current.blocks) :
           /\ current.blocks[j].path = group[i].path
           /\ IF i <= Min(Len(group), Len(cells))
              THEN current.blocks[j].placed /\ current.blocks[j].position = cells[i]
              ELSE ~current.blocks[j].placed

\* C3: every block the placement pass gives a position has it inside the grid
\* and inside the rectangle of the zone of its category.
C3_PlacementBound ==
  \A i \in Indices(assigned) :
    /\ InsideGrid(LoadedGridSize(layout), assigned[i].position[1], assigned[i].position[2])
    /\ InsideRect(LoadedZones(layout)[ZoneOf(assigned[i].category)],
                  assigned[i].position[1], assigned[i].position[2])

\* C4: within one placement pass no two blocks are given the same position.
C4_NoSharedPosition ==
  \A i, j \in Indices(assigned) :
    i # j => assigned[i].position # assigned[j].position

\* two blocks of different categories were given positions by a pass over zones
\* that share cells
C4_Witness ==
  /\ LoadedZones(layout) = OverlapConfig.zones
  /\ \E i, j \in Indices(assigned) :
       /\ assigned[i].category # assigned[j].category
       /\ ZoneOf(assigned[i].category) # ZoneOf(assigned[j].category)

Conserved(doc) ==
  /\ doc.stats.total_files = Len(doc.blocks)
  /\ doc.stats.placed_files = Cardinality({i \in Indices(doc.blocks) : doc.blocks[i].placed})

\* C5: in the layout written by a fresh build and in the layout written by a
\* reorganization, stats.total_files is the length of blocks and
\* stats.placed_files is the number of blocks with placed = true.
C5_Conservation ==
  /\ (ReorgDone => Conserved(current))
  /\ ((op = "init" /\ result = "ok") => Conserved(initial))

\* a reorganization wrote a layout that still lists a block, after the pass had
\* given a position to another
C5_Witness == ReorgDone /\ current.blocks # <<>> /\ assigned # <<>>

CategoryIndices(blocks, c) == {i \in Indices(blocks) : blocks[i].category = c}

\* C6: when a category has more blocks than its zone has cells (width * height),
\* exactly width * height blocks of the category are placed and the others of
\* the category are in the layout with placed = false and no position.
C6_Leftover ==
  ReorgDone =>
    \A i \in Indices(LoadedBlocks(layout)) :
      LET c == LoadedBlocks(layout)[i].category
          n == Cardinality(CategoryIndices(LoadedBlocks(layout), c))
      IN (ZoneOf(c) \in DOMAIN LoadedZones(layout)) =>
           LET zone == LoadedZones(layout)[ZoneOf(c)]
               cells == zone.width * zone.height
           IN (zone.width > 0 /\ zone.height > 0 /\ n > cells) =>
                /\ Cardinality({j \in CategoryIndices(current.blocks, c) :
                                  current.blocks[j].placed}) = cells
                /\ Cardinality({j \in CategoryIndices(current.blocks, c) :
                                  /\ ~current.blocks[j].placed
                                  /\ current.blocks[j].position = NoPosition}) = n - cells

\* C7: a reorganization that loads the layout the previous reorganization wrote
\* writes a layout with the same stats.
C7_SameStats ==
  (ReorgDone /\ layout_path = "current") => current.stats = layout.stats

\* C8: a reorganization started when neither layout file exists ends at once
\* with LayoutNotFound and leaves the configuration, both layout files and the
\* backups as they were.
C8_NotFoundWritesNothing ==
  [][(/\ runs' = runs + 1
      /\ op' = "reorganize"
      /\ initialized
      /\ current = NoFile
      /\ initial = NoFile)
     => (/\ result' = "LayoutNotFound"
         /\ pc' = "idle"
         /\ UNCHANGED <<initialized, config, initial, current, backups>>)]_vars

C8_Witness ==
  /\ op = "reorganize"
  /\ result = "LayoutNotFound"
  /\ initialized
  /\ current = NoFile
  /\ initial = NoFile
  /\ backups = NoBackups

BackedUp(doc) == \E t \in DOMAIN backups : backups[t] = doc

\* C9: in a reorganization that loaded the current layout, once the run is past
\* the backup step a backup file holds a copy of the loaded document, and at
\* every point of the run the loaded document is the content of the current
\* file or of a backup file.
C9_BackupBeforeOverwrite ==
  (pc # "idle" /\ layout_path = "current") =>
    /\ (pc \in {"open", "dump"} => BackedUp(layout))
    /\ (current = layout \/ BackedUp(layout))

\* the overwrite of an existing current layout has begun
C9_Witness ==
  /\ pc = "dump"
  /\ layout_path = "current"
  /\ current = Truncated
  /\ new_layout # layout

\* C10: when the backup copy fails the run is over and the current layout file
\* holds what it held when the run loaded it (nothing, when the run loaded the
\* initial layout).
C10_FailedBackupKeepsCurrent ==
  result = "backup_failed" =>
    /\ pc = "idle"
    /\ current = (IF layout_path = "current" THEN layout ELSE NoFile)

C10_Witness ==
  /\ result = "backup_failed"
  /\ layout_path = "current"
  /\ current = layout
  /\ new_layout # layout

\* a grid_reorganize starts on an initialised project
ReorgStarts == runs' = runs + 1 /\ op' = "reorganize" /\ initialized

\* C11: a reorganization that loads a layout loads the current layout when the
\* current file exists and the initial layout when it does not, and it ends
\* with LayoutNotFound exactly when both files are absent.
C11_LoadPreference ==
  [][ReorgStarts =>
       /\ (result' = "LayoutNotFound") <=> (current = NoFile /\ initial = NoFile)
       /\ (pc' = "backup" /\ current # NoFile) =>
            (layout_path' = "current" /\ layout' = current)
       /\ (pc' = "backup" /\ current = NoFile) =>
            (layout_path' = "initial" /\ layout' = initial /\ initial # NoFile)]_vars

\* both files exist with different documents and the run has loaded current
C11_Witness ==
  /\ pc = "backup"
  /\ layout_path = "current"
  /\ layout = current
  /\ initial # NoFile
  /\ initial # current

\* an init has just written initial.json
InitDone == op = "init" /\ result = "ok"

\* the blocks of the document that go to the zone of category c
ZoneMates(doc, c) == {j \in Indices(doc.blocks) : ZoneOf(doc.blocks[j].category) = ZoneOf(c)}

\* the zone of category c is configured with at least n cells
ZoneHolds(doc, c, n) ==
  /\ ZoneOf(c) \in DOMAIN doc.zones
  /\ doc.zones[ZoneOf(c)].width > 0
  /\ doc.zones[ZoneOf(c)].height > 0
  /\ doc.zones[ZoneOf(c)].width * doc.zones[ZoneOf(c)].height >= n

Positioned(doc) == {i \in Indices(doc.blocks) : doc.blocks[i].position # NoPosition}

PassDone == pc = "backup"

SameFile(a, b) ==
  /\ a.path = b.path
  /\ a.name = b.name
  /\ a.type = b.type
  /\ a.category = b.category
  /\ a.size = b.size
  /\ a.modified = b.modified

\* the loaded blocks with no trace of an earlier arrangement
C13_Erased(blocks) ==
  [i \in Indices(blocks) |-> [blocks[i] EXCEPT !.placed = FALSE, !.position = NoPosition]]

\* C13: every block of the layout a reorganization builds has the path, name,
\* type, category, size and modified of a block of the loaded layout, and the
\* blocks built are those built from the loaded layout with every placed flag
\* and position erased.
C13_StoredCategoryOnly ==
  PassDone =>
    /\ \A j \in Indices(new_layout.blocks) :
         \E i \in Indices(LoadedBlocks(layout)) :
           SameFile(new_layout.blocks[j], LoadedBlocks(layout)[i])
    /\ new_layout.blocks =
         _reorganize_blocks(C13_Erased(LoadedBlocks(layout)), LoadedZones(layout),
                            LoadedGridSize(layout)).result_blocks

\* the loaded layout had a block placed by an earlier arrangement, and the pass
\* found no cell for it
C13_Witness ==
  /\ PassDone
  /\ \E i \in Indices(LoadedBlocks(layout)) :
       /\ LoadedBlocks(layout)[i].placed
       /\ LoadedBlocks(layout)[i].position # NoPosition
       /\ \E j \in Indices(new_layout.blocks) :
            new_layout.blocks[j].path = LoadedBlocks(layout)[i].path

\* the zone the table of the claim gives a category
C14_Table(c) ==
  IF c \in {"active", "pending"} THEN "active"
  ELSE IF c \in {"resources", "reference"} THEN "resources"
  ELSE "archive"

Categories(blocks) == {blocks[i].category : i \in Indices(blocks)}

\* the paths of the blocks of category c that a pass over the blocks gives a position
PlacedPaths(blocks, zones, grid_size, c) ==
  LET a == _reorganize_blocks(blocks, zones, grid_size).assigned
  IN {a[i].path : i \in {k \in Indices(a) : a[k].category = c}}

AssignedPaths(c) == {assigned[i].path : i \in {k \in Indices(assigned) : assigned[k].category = c}}

OtherThan(blocks, d) == SelectSeq(blocks, LAMBDA b : b.category # d)

DefaultGrid(doc) ==
  LoadedZones(doc) = DefaultConfig.zones /\ LoadedGridSize(doc) = DefaultConfig.grid_size

\* C14 as stated: under the default grid and zones, the blocks of a category
\* that a pass gives a position are those it gives a position when the blocks
\* of any one other category are taken out of the layout.
C14_NoContention ==
  (PassDone /\ DefaultGrid(layout)) =>
    \A c, d \in Categories(LoadedBlocks(layout)) :
      c # d =>
        AssignedPaths(c) = PlacedPaths(OtherThan(LoadedBlocks(layout), d),
                                       LoadedZones(layout), LoadedGridSize(layout), c)

\* C14 amended: under the default grid and zones, the blocks of a category
\* that a pass gives a position are those it gives a position when the blocks
\* of any one category that the table sends to another zone are taken out of
\* the layout.
C14_NoContentionAcrossZones ==
  (PassDone /\ DefaultGrid(layout)) =>
    \A c, d \in Categories(LoadedBlocks(layout)) :
      C14_Table(c) # C14_Table(d) =>
        AssignedPaths(c) = PlacedPaths(OtherThan(LoadedBlocks(layout), d),
                                       LoadedZones(layout), LoadedGridSize(layout), c)

\* under the default grid the active blocks have filled the active zone, a
\* resources block was given a cell and a pending block was not
C14_Witness ==
  /\ PassDone
  /\ DefaultGrid(layout)
  /\ Cardinality(AssignedPaths("active")) = ActiveCells
  /\ AssignedPaths("resources") # {}
  /\ \E j \in Indices(new_layout.blocks) : new_layout.blocks[j].category = "pending"

FileToLoad == IF current # NoFile THEN current ELSE initial

\* a layout document on which a required field is missing
Malformed(doc) ==
  /\ "kind" \in DOMAIN doc
  /\ doc.kind = "layout"
  /\ \/ ~({"grid_size", "zones", "blocks"} \subseteq DOMAIN doc)
     \/ \E i \in Indices(LoadedBlocks(doc)) :
          ~({"category", "type"} \subseteq DOMAIN LoadedBlocks(doc)[i])

\* C16: a reorganization started on a layout document from which a required
\* field is missing ends at once with a reported failure, neither running on
\* with default values nor raising an exception, and writes nothing.
C16_MalformedRejected ==
  [][(ReorgStarts /\ Malformed(FileToLoad)) =>
       /\ pc' = "idle"
       /\ result' \notin {"running", "ok", "exception"}
       /\ UNCHANGED <<initialized, config, initial, current, backups>>]_vars

\* C17: a reorganization started on a project that is not initialised ends
\* with NotInitialized, one started with no layout file ends with
\* LayoutNotFound, and both leave every file as it was; one started on a
\* layout of zero blocks runs on, and its last step ends it with success and a
\* written layout whose total_files is 0.
C17_ExpectedConditions ==
  [][/\ (runs' = runs + 1 /\ op' = "reorganize" /\ ~initialized) =>
          (/\ result' = "NotInitialized"
           /\ pc' = "idle"
           /\ UNCHANGED <<initialized, config, initial, current, backups>>)
     /\ (ReorgStarts /\ FileToLoad = NoFile) =>
          (/\ result' = "LayoutNotFound"
           /\ pc' = "idle"
           /\ UNCHANGED <<initialized, config, initial, current, backups>>)
     /\ (ReorgStarts /\ FileToLoad \notin {NoFile, Truncated}
           /\ LoadedBlocks(FileToLoad) = <<>>) =>
          (result' = "running" /\ pc' = "backup")
     /\ (pc = "dump" /\ pc' = "idle" /\ LoadedBlocks(layout) = <<>>) =>
          (result' = "ok" /\ current'.stats.total_files = 0)]_vars

\* a reorganization of a layout of zero blocks has ended with success
C17_Witness ==
  /\ ReorgDone
  /\ layout # NoFile
  /\ LoadedBlocks(layout) = <<>>
  /\ current.stats.total_files = 0

C18_Unlisted(c) ==
  c \notin {"active", "pending", "archive", "completed", "resources", "reference"}

\* the grid cell a position stands for
C18_Cell(position, grid_size) ==
  <<position[1] % grid_size.width, position[2] % grid_size.height>>

\* the place of a position in the row-major order of a zone's cells
C18_Rank(zone, position) ==
  (position[2] - zone.y) * zone.width + (position[1] - zone.x)

\* every cell of the zone that lies within the grid's width and height was
\* given to a block of the pass
C18_Full(zone, grid_size, given) ==
  \A k \in 1..Len(ZoneCells(zone)) :
    LET cell == ZoneCells(zone)[k] IN
    (cell[1] < grid_size.width /\ cell[2] < grid_size.height) =>
      \E i \in Indices(given) :
        C18_Cell(given[i].position, grid_size) = C18_Cell(cell, grid_size)

\* C18: a reorganization of a layout whose blocks all have categories outside
\* the table does not fail; in any reorganization, a block of such a category
\* that gets a position gets it in the rectangle of the archive zone, in
\* row-major order within its group, and a block of such a category that gets
\* none is in the new layout with placed = false and no position, which
\* happens only when the archive zone is not configured or has no free cell
\* left.
C18_UnknownToArchive ==
  [][/\ (ReorgStarts /\ FileToLoad \notin {NoFile, Truncated}
           /\ \A i \in Indices(LoadedBlocks(FileToLoad)) :
                C18_Unlisted(LoadedBlocks(FileToLoad)[i].category))
          => pc' = "backup"
     /\ (ReorgStarts /\ pc' = "backup") =>
          LET zones == LoadedZones(layout')
              loaded == LoadedBlocks(layout')
              built == new_layout'.blocks
              given == assigned'
          IN /\ \A i \in Indices(given) :
                  C18_Unlisted(given[i].category) =>
                    /\ "archive" \in DOMAIN zones
                    /\ InsideRect(zones["archive"], given[i].position[1],
                                  given[i].position[2])
             /\ \A i, j \in Indices(given) :
                  (/\ i < j
                   /\ C18_Unlisted(given[i].category)
                   /\ given[i].category = given[j].category) =>
                    /\ given[i].path < given[j].path
                    /\ C18_Rank(zones["archive"], given[i].position)
                         < C18_Rank(zones["archive"], given[j].position)
             /\ \A i \in Indices(loaded) :
                  C18_Unlisted(loaded[i].category) =>
                    \/ \E k \in Indices(given) : given[k].path = loaded[i].path
                    \/ /\ \E k \in Indices(built) :
                            /\ built[k].path = loaded[i].path
                            /\ ~built[k].placed
                            /\ built[k].position = NoPosition
                       /\ \/ "archive" \notin DOMAIN zones
                          \/ C18_Full(zones["archive"], LoadedGridSize(layout'), given)]_vars

\* of two blocks of an unlisted category one has the only cell of the archive
\* zone that lies in the grid and is free, and the other stays in the new layout
C18_Witness ==
  /\ PassDone
  /\ "archive" \in DOMAIN LoadedZones(layout)
  /\ \E i \in Indices(assigned) : C18_Unlisted(assigned[i].category)
  /\ \E k \in Indices(new_layout.blocks) : C18_Unlisted(new_layout.blocks[k].category)

\* the names the claim counts as special
C19_Special(name) ==
  \/ name[1] = "README"
  \/ name = <<"requirements", ".txt">>
  \/ name = <<"package", ".json">>
  \/ name = <<"setup", ".py">>
  \/ name[1] = "test_"
  \/ (Len(name) >= 2 /\ SubSeq(name, Len(name) - 1, Len(name)) = <<"_test", ".py">>)

\* the category the claim gives a file of this name and age in whole days
C19_Category(name, days) ==
  IF C19_Special(name) THEN "resources"
  ELSE IF days < 7 THEN "active"
  ELSE IF days < 30 THEN "pending"
  ELSE "archive"

\* C19: every block an init writes has the category of the rule: resources for
\* a special name whatever the age, else active under 7 whole days since
\* modification, pending under 30, archive from 30 on.
C19_CategoryRule ==
  initial # NoFile =>
    \A i \in Indices(initial.blocks) :
      initial.blocks[i].category =
        C19_Category(initial.blocks[i].name, initial.blocks[i].modified)

\* README.md modified 200 days ago is classified resources
C19_Witness ==
  /\ InitDone
  /\ \E i \in Indices(initial.blocks) :
       /\ initial.blocks[i].name = <<"README", ".md">>
       /\ initial.blocks[i].modified = 200
       /\ initial.blocks[i].category = "resources"
  /\ files \in {<<f>> : f \in ClassifierFiles}

StoredEmails(db) == {db[i].value.email : i \in 1..Len(db)}

\* C21: no two stored users ever have the same email; a create_user call with
\* an email that a stored user has raises ValueError and leaves the store as
\* it was, and a call with another email adds one user to the store, leaving
\* the others, under the key that is the user's own id.
C21_EmailUnique ==
  /\ [](\A i, j \in 1..Len(_users_db) :
          i # j => _users_db[i].value.email # _users_db[j].value.email)
  /\ [][call'.fn = "create_user" =>
          IF call'.email \in StoredEmails(_users_db)
          THEN ret' = Raised("ValueError") /\ _users_db' = _users_db
          ELSE /\ Len(_users_db') = Len(_users_db) + 1
               /\ SubSeq(_users_db', 1, Len(_users_db)) = _users_db
               /\ LET added == _users_db'[Len(_users_db')]
                  IN /\ added.key = added.value.id
                     /\ added.key \notin Keys(_users_db)
                     /\ added.value.email = call'.email
                     /\ ret' = Returned(added.value)]_vars

\* with two users stored, a create_user with the email of one of them raised
C21_Witness ==
  /\ Len(_users_db) = 2
  /\ call.fn = "create_user"
  /\ call.email \in StoredEmails(_users_db)
  /\ ret = Raised("ValueError")

\* the create_user calls that returned a user with this email
CreatedWith(email) == SelectSeq(created, LAMBDA c : c.email = email)

\* C22: get_user_by_email(e) returns the user that a create_user call with
\* email e returned, and None when there was no such call; verify_password(p,
\* u.hashed_password) on a stored user u returns true exactly when p is the
\* password of the call that created u.
C22_LookupAndVerify ==
  /\ call.fn = "get_user_by_email" =>
       IF CreatedWith(call.email) = <<>> THEN ret = None
       ELSE /\ ret.kind = "return"
            /\ ret.value.email = call.email
            /\ ret.value.id = CreatedWith(call.email)[1].id
  /\ call.fn = "verify_password" =>
       ret = Returned(\E i \in 1..Len(created) :
                        created[i].id = call.id /\ created[i].password = call.password)

\* with two users stored, the password of the second was verified
C22_Witness ==
  /\ Len(_users_db) = 2
  /\ call.fn = "verify_password"
  /\ call.id = _users_db[2].value.id
  /\ ret = Returned(TRUE)

\* the backup files that were there are there still, unchanged
BackupsKept == \A t \in DOMAIN backups : t \in DOMAIN backups' /\ backups'[t] = backups[t]

\* the step of a reorganization that copies the loaded file
BackupStep == pc = "backup" /\ pc' = "open"

\* C23: as long as no two backups are made in the same second, the backup
\* step of a reorganization adds exactly one backup file, which holds the
\* file the run loaded, no other step adds, changes or removes a backup file,
\* and whenever the document in the current layout file is replaced a backup
\* file holds it; so every document the current file has held is in a backup.
C23_VersionsRetained ==
  [][/\ (BackupStep /\ now \notin DOMAIN backups) =>
          /\ DOMAIN backups' = DOMAIN backups \cup {now}
          /\ BackupsKept
          /\ backups'[now] = (IF current # NoFile THEN current ELSE initial)
     /\ (backups' # backups) => BackupStep
     /\ (current' # current /\ current \notin {NoFile, Truncated}) =>
          \E t \in DOMAIN backups' : backups'[t] = current]_vars

\* two reorganizations have succeeded in different seconds: one backup file
\* holds the initial layout the first loaded, another the layout it wrote
C23_Witness ==
  /\ ReorgDone
  /\ layout_path = "current"
  /\ Cardinality(DOMAIN backups) = 2
  /\ BackedUp(initial)
  /\ BackedUp(layout)
  /\ layout # initial
  /\ current # layout

\* a step of a grid_reorganize run
ReorgStep == (runs' = runs + 1 /\ op' = "reorganize") \/ pc # "idle"

\* C24 as stated: no step of a reorganization changes the initial layout file
\* or the configuration; a run that fails at its start changes no file; the
\* backup step leaves the current file alone and adds one backup file to
\* those there; the later steps change the current file only.
C24_Frame ==
  [][ReorgStep =>
       /\ UNCHANGED <<initialized, config, initial>>
       /\ (pc = "idle" /\ pc' = "idle") => UNCHANGED <<current, backups>>
       /\ (pc = "idle" /\ pc' = "backup") => UNCHANGED <<current, backups>>
       /\ BackupStep =>
            /\ current' = current
            /\ BackupsKept
            /\ Cardinality(DOMAIN backups') = Cardinality(DOMAIN backups) + 1
       /\ (pc \in {"open", "dump"}) => backups' = backups]_vars

\* C24 amended: as stated, but the backup step adds one backup file or, when
\* a backup file of the same second exists, replaces the content of that one;
\* every other backup file is kept.
C24_FrameOrOverwrite ==
  [][ReorgStep =>
       /\ UNCHANGED <<initialized, config, initial>>
       /\ (pc = "idle" /\ pc' = "idle") => UNCHANGED <<current, backups>>
       /\ (pc = "idle" /\ pc' = "backup") => UNCHANGED <<current, backups>>
       /\ BackupStep =>
            /\ current' = current
            /\ DOMAIN backups' = DOMAIN backups \cup {now}
            /\ \A t \in DOMAIN backups : t # now => backups'[t] = backups[t]
            /\ backups'[now] = (IF current # NoFile THEN current ELSE initial)
       /\ (pc \in {"open", "dump"}) => backups' = backups]_vars

\* two reorganizations have succeeded in one second: the only backup file
\* holds what the second loaded, and the initial layout is in no backup
C24_Witness ==
  /\ ReorgDone
  /\ layout_path = "current"
  /\ DOMAIN backups = {now}
  /\ backups[now] = layout
  /\ initial # NoFile
  /\ ~BackedUp(initial)

====
